---- MODULE Spec2Model ----
(***************************************************************************)
(* Model of the MCCI Catena 5230 port 1/3/4 payload decoder                *)
(* (Decoder/catena-message-0x50-port1-decoder-nodered.js).                 *)
(*                                                                         *)
(* JavaScript values are records tagged by t:                              *)
(*   "undefined"            - the value of an out-of-range bytes[i]        *)
(*   "NaN", "Infinity"      - the non-finite numbers (Infinity carries n   *)
(*                            = 1 or -1 for its sign)                      *)
(*   "number"               - the finite number (n / d) * 2^e              *)
(*   "string"               - a text pattern and the values put into it    *)
(* Negative zero is not told apart from zero (-0 === 0 in JavaScript).     *)
(***************************************************************************)
EXTENDS Integers, Sequences, FiniteSets, TLC

VARIABLES pc, call, bytes, port, i, flags, decoded, ret, hi, scalar

vars == <<pc, call, bytes, port, i, flags, decoded, ret, hi, scalar>>

(* ---------------------------- bounds ----------------------------------- *)
MaxPort == 4
MaxLen == 22
MaxPattern == 1
MaxRev == 6
MaxStatus == 3
MaxCommand == 8

(* ------------------------- JavaScript values --------------------------- *)
Value(t, n, d, e, txt, parts) ==
    [t |-> t, n |-> n, d |-> d, e |-> e, txt |-> txt, parts |-> parts]
Undefined == Value("undefined", 0, 1, 0, "", <<>>)
NaN == Value("NaN", 0, 1, 0, "", <<>>)
Infinity(s) == Value("Infinity", s, 1, 0, "", <<>>)
Float(n, d, e) == IF n = 0 THEN Value("number", 0, 1, 0, "", <<>>)
                  ELSE Value("number", n, d, e, "", <<>>)
Num(n) == Float(n, 1, 0)
\* a string: txt is its pattern, parts the values concatenated into it
Str(txt, parts) == Value("string", 0, 1, 0, txt, parts)
IsNum(x) == x.t = "number"

\* bytes[k] for a 0-based k: undefined at or past the end of the buffer
At(b, k) == IF k >= 0 /\ k < Len(b) THEN Num(b[k + 1]) ELSE Undefined

\* ToInt32 of an operand of <<, >> and &: undefined and NaN become 0
ToInt32(x) == IF IsNum(x) THEN x.n ELSE 0

\* x << k on signed 32-bit integers, for a byte x and k <= 24
Shl(x, k) ==
    LET v == ToInt32(x)
        hiBit == 2 ^ (31 - k)
    IN  IF v >= hiBit THEN Num((v - 2 * hiBit) * (2 ^ k)) ELSE Num(v * (2 ^ k))

\* x >> k for a non-negative x
Shr(x, k) == Num(ToInt32(x) \div (2 ^ k))

RECURSIVE AndBits(_, _)
AndBits(x, y) ==
    IF x = 0 \/ y = 0 THEN 0
    ELSE (x % 2) * (y % 2) + 2 * AndBits(x \div 2, y \div 2)

\* x & mask for a non-negative x
BitAnd(x, mask) == Num(AndBits(ToInt32(x), mask))

\* a + b on numbers: anything that is not a finite number gives NaN
Add(a, b) == IF IsNum(a) /\ IsNum(b) THEN Num(a.n + b.n) ELSE NaN

\* x / k for an integer-valued x and a positive integer k
DivBy(x, k) == IF IsNum(x) THEN Float(x.n, x.d * k, x.e) ELSE NaN

\* x * k for a positive integer k
MulBy(x, k) == IF IsNum(x) THEN Float(x.n * k, x.d, x.e) ELSE NaN

\* if (x) ... : the truthiness of a number
Truthy(x) == IsNum(x) /\ x.n # 0

(* ----------------------------- Numeric codec --------------------------- *)
\* every codec returns <<value, new Parse.i>>
DecodeU16(b, k) == <<Add(Shl(At(b, k), 8), At(b, k + 1)), k + 2>>

DecodeI16(b, k) ==
    LET r == DecodeU16(b, k)
        Vraw == r[1]
    IN  IF Truthy(BitAnd(Vraw, 32768)) THEN <<Add(Vraw, Num(-65536)), r[2]>>
        ELSE r

DecodeU32(b, k) ==
    <<Add(Add(Add(Shl(At(b, k), 24), Shl(At(b, k + 1), 16)),
              Shl(At(b, k + 2), 8)), At(b, k + 3)), k + 4>>

DecodeV(b, k) ==
    LET r == DecodeI16(b, k) IN <<DivBy(r[1], 4096), r[2]>>

DecodeUflt16(b, k) ==
    LET r == DecodeU16(b, k)
        rawUflt16 == r[1]
        exp1 == Shr(rawUflt16, 12)
        mant1 == BitAnd(rawUflt16, 4095)
    IN  <<Float(mant1.n, 4096, exp1.n - 15), r[2]>>

DecodeU24(b, k) ==
    <<Add(Add(Shl(At(b, k), 16), Shl(At(b, k + 1), 8)), At(b, k + 2)), k + 3>>

\* mutant: the exponent mask 0xFF0000 takes in the sign bit
Sflt24ValueWideMask(rawSflt24) ==
    LET bSign == Truthy(BitAnd(rawSflt24, 8388608))
        uExp == Shr(BitAnd(rawSflt24, 16711680), 16).n
        uMantissa == BitAnd(rawSflt24, 65535).n
    IN  IF uExp = 127
        THEN IF uMantissa = 0
             THEN (IF bSign THEN Infinity(-1) ELSE Infinity(1))
             ELSE NaN
        ELSE LET m == IF uExp # 0 THEN uMantissa + 65536 ELSE uMantissa
                 x == IF uExp # 0 THEN uExp ELSE 1
             IN  Float(IF bSign THEN -m ELSE m, 65536, x - 63)

Sflt24Value(rawSflt24) ==
    LET bSign == Truthy(BitAnd(rawSflt24, 8388608))
        uExp == Shr(BitAnd(rawSflt24, 8323072), 16).n
        uMantissa == BitAnd(rawSflt24, 65535).n
    IN  IF uExp = 127
        THEN IF uMantissa = 0
             THEN (IF bSign THEN Infinity(-1) ELSE Infinity(1))
             ELSE NaN
        ELSE LET m == IF uExp # 0 THEN uMantissa + 65536 ELSE uMantissa
                 x == IF uExp # 0 THEN uExp ELSE 1
             IN  Float(IF bSign THEN -m ELSE m, 65536, x - 63)

DecodeSflt24(b, k) ==
    LET r == DecodeU24(b, k) IN <<Sflt24Value(r[1]), r[2]>>

DecodeLux(b, k) == DecodeSflt24(b, k)

(* ------------------------------ records -------------------------------- *)
EmptyRecord == [x \in {} |-> Undefined]
Put(rec, key, val) ==
    [x \in (DOMAIN rec) \cup {key} |-> IF x = key THEN val ELSE rec[x]]

(* ----------------------- DecodeDownlinkResponse ------------------------ *)
\* mutant: a status byte that is not 0 or 1 is reported as "Failure"
PutResponseElseFailure(rec, responseError) ==
    IF responseError = Num(0) THEN Put(rec, "Response", Str("Success", <<>>))
    ELSE IF responseError = Num(1)
         THEN Put(rec, "Response", Str("Invalid Length", <<>>))
    ELSE Put(rec, "Response", Str("Failure", <<>>))

\* the status byte shared by commands 0x03..0x07
PutResponse(rec, responseError) ==
    IF responseError = Num(0) THEN Put(rec, "Response", Str("Success", <<>>))
    ELSE IF responseError = Num(1)
         THEN Put(rec, "Response", Str("Invalid Length", <<>>))
    ELSE IF responseError = Num(2) THEN Put(rec, "Response", Str("Failure", <<>>))
    ELSE rec

\* mutant: the model id 0 is not treated as the "default model" sentinel
PutModelRevNoSentinel(rec, Model, Rev) ==
    LET r == Put(rec, "Model", Model)
    IN  IF Rev = Num(0) THEN Put(r, "Rev", Str("A", <<>>))
        ELSE IF Rev = Num(1) THEN Put(r, "Rev", Str("B", <<>>))
        ELSE IF Rev = Num(2) THEN Put(r, "Rev", Str("C", <<>>))
        ELSE IF Rev = Num(3) THEN Put(r, "Rev", Str("D", <<>>))
        ELSE IF Rev = Num(4) THEN Put(r, "Rev", Str("E", <<>>))
        ELSE r

PutModelRev(rec, Model, Rev) ==
    IF ~(Model = Num(0))
    THEN LET r == Put(rec, "Model", Model)
         IN  IF Rev = Num(0) THEN Put(r, "Rev", Str("A", <<>>))
             ELSE IF Rev = Num(1) THEN Put(r, "Rev", Str("B", <<>>))
             ELSE IF Rev = Num(2) THEN Put(r, "Rev", Str("C", <<>>))
             ELSE IF Rev = Num(3) THEN Put(r, "Rev", Str("D", <<>>))
             ELSE IF Rev = Num(4) THEN Put(r, "Rev", Str("E", <<>>))
             ELSE r
    ELSE Put(Put(rec, "Model", Num(5230)), "Rev", Str("Not Found", <<>>))

DeviceVersion(b) ==
    LET r1 == PutResponse(Put(EmptyRecord, "ResponseType",
                              Str("Device Version", <<>>)), At(b, 1))
        r2 == Put(r1, "AppVersion",
                  Str("V%.%.%.%", <<At(b, 2), At(b, 3), At(b, 4), At(b, 5)>>))
        m == DecodeU16(b, 6)
    IN  PutModelRev(r2, m[1], At(b, m[2]))

StatusOnly(b, name) ==
    PutResponse(Put(EmptyRecord, "ResponseType", Str(name, <<>>)), At(b, 1))

UplinkIntervalResponse(b) ==
    Put(StatusOnly(b, "Uplink Interval"), "UplinkInterval", DecodeU32(b, 2)[1])

DecodeDownlinkResponse(b) ==
    LET command == At(b, 0)
    IN  IF command = Num(1) THEN EmptyRecord
        ELSE IF command = Num(2) THEN EmptyRecord
        ELSE IF command = Num(3) THEN DeviceVersion(b)
        ELSE IF command = Num(4) THEN StatusOnly(b, "AppEUI Set")
        ELSE IF command = Num(5) THEN StatusOnly(b, "AppKey set")
        ELSE IF command = Num(6) THEN StatusOnly(b, "Rejoin")
        ELSE IF command = Num(7) THEN UplinkIntervalResponse(b)
        ELSE EmptyRecord

(* --------------------------- CalculateHeatIndex ------------------------ *)
\* Exact decimal arithmetic: a quantity is <<w, f>>, meaning w + f / 10^8
\* with 0 <= f < 10^8.  The inputs t and rh are whole numbers.
E8 == 10 ^ 8
E4 == 10 ^ 4

Norm(w, f) == <<w + (f \div E8), f % E8>>

\* c * n for a coefficient c given in units of 10^-8 and a whole n >= 0
Mul(c, n) ==
    LET ch == c \div E4
        cl == c % E4
        nh == n \div E4
        nl == n % E4
        mid == ch * nl + cl * nh
    IN  Norm(ch * nh + (mid \div E4), (mid % E4) * E4 + cl * nl)

Plus(a, b) == Norm(a[1] + b[1], a[2] + b[2])
Minus(a, b) == Norm(a[1] - b[1], a[2] - b[2])
Less(a, b) == a[1] < b[1] \/ (a[1] = b[1] /\ a[2] < b[2])

\* Math.floor(t + 0.5)
FloorHalf(t) == (2 * t + 1) \div 2

\* Math.sqrt(num / den) in units of 10^-4, truncated
Sqrt4(num, den) ==
    LET x == (num * E8) \div den
    IN  CHOOSE r \in 0..E4 : r * r <= x /\ (r + 1) * (r + 1) > x

Abs(x) == IF x < 0 THEN -x ELSE x

\* 1000 * tHeatEasy
HeatEasy1000(t, rh) == 500 * (t + 61) + 600 * (t - 68) + 47 * rh

\* mutant: tHeatEasy < 160.0, the input temperature left out of the sum
UseEasyWithoutT(t, rh) == HeatEasy1000(t, rh) < 160000

\* (tHeatEasy + t) < 160.0
UseEasy(t, rh) == HeatEasy1000(t, rh) + 1000 * t < 160000

HeatPolynomial(t, rh) ==
    LET t2 == t * t
        rh2 == rh * rh
        pos == Plus(Plus(Plus(Mul(204901523, t), Mul(1014333127, rh)),
                         Mul(122874, t2 * rh)), Mul(85282, t * rh2))
        neg == Plus(Plus(Plus(Plus(<<42, 37900000>>, Mul(22475541, t * rh)),
                              Mul(683783, t2)), Mul(5481717, rh2)),
                    Mul(199, t2 * rh2))
    IN  Minus(pos, neg)

HeatAdjust(t, rh) ==
    IF rh < 13 /\ 80 <= t /\ t <= 112
    THEN Norm(0, -((13 - rh) * Sqrt4(17 - Abs(t - 95), 17) * 2500))
    ELSE IF rh > 85 /\ 80 <= t /\ t <= 87
    THEN Norm(0, (rh - 85) * (87 - t) * 2000000)
    ELSE <<0, 0>>

HeatResult(branch, v) == [branch |-> branch, w |-> v[1], f |-> v[2]]

\* branch "range" and "ceiling" are the two null returns
CalculateHeatIndex(t, rh) ==
    LET tRounded == FloorHalf(t)
    IN  IF tRounded < 76 \/ tRounded > 126 THEN HeatResult("range", <<0, 0>>)
        ELSE IF rh < 0 \/ rh > 100 THEN HeatResult("range", <<0, 0>>)
        ELSE IF UseEasy(t, rh)
        THEN HeatResult("easy", <<HeatEasy1000(t, rh) \div 1000,
                                 (HeatEasy1000(t, rh) % 1000) * 100000>>)
        ELSE LET tResult == Plus(HeatPolynomial(t, rh), HeatAdjust(t, rh))
             IN  IF ~Less(tResult, <<183, 50000000>>)
                 THEN HeatResult("ceiling", <<0, 0>>)
                 ELSE HeatResult("hard", tResult)

(* ------------------------------- inputs -------------------------------- *)
Ports == 0..MaxPort
Bytes == 0..255

\* the k-th payload byte of fill pattern pat
PayloadByte(pat, k) == IF pat = 0 THEN (37 * k + 1) % 256 ELSE (256 - pat) % 256

\* a buffer of len bytes: format tag, bitmap, then the payload pattern
UplinkBuffer(tag, fl, pat, len) ==
    [k \in 1..len |-> IF k = 1 THEN tag
                      ELSE IF k = 2 THEN fl ELSE PayloadByte(pat, k - 2)]

UplinkBuffers ==
    {UplinkBuffer(80, fl, pat, len) :
        fl \in Bytes, pat \in 0..MaxPattern, len \in 0..MaxLen}
    \cup {UplinkBuffer(tag, fl, 0, len) :
        tag \in {0, 81}, fl \in {0, 255}, len \in 1..3}

Prefix(q, len) == [k \in 1..len |-> q[k]]

Models == {0, 1, 256, 5230, 65535}
VersionTails ==
    {<<1, 2, 3, 4, m \div 256, m % 256, r>> : m \in Models, r \in 0..MaxRev}
IntervalTails ==
    {<<b0>> \o rest : b0 \in {0, 127, 128, 255},
                      rest \in {<<0, 0, 0>>, <<1, 2, 3>>, <<255, 255, 255>>}}
DownlinkBuffers ==
    UNION {{Prefix(<<c, st>> \o tail, len) : len \in 0..(2 + Len(tail))} :
           <<c, st, tail>> \in (0..MaxCommand) \X (0..MaxStatus)
                               \X (VersionTails \cup IntervalTails)}

Buffers == UplinkBuffers \cup DownlinkBuffers

Sflt24Mantissas == {0, 1, 32768, 65535}
HeatTemps == 70..130
HeatHumidities == -2..102

(* ------------------------------- Decoder ------------------------------- *)
Init ==
    /\ pc = "idle"
    /\ call = "none"
    /\ bytes = <<>>
    /\ port = 0
    /\ i = 0
    /\ flags = Undefined
    /\ decoded = EmptyRecord
    /\ ret = "none"
    /\ hi = [t |-> 0, rh |-> 0] @@ HeatResult("none", <<0, 0>>)
    /\ scalar = Undefined

\* mutant: the format tag is checked before port 3 is routed
RouteTagFirst(b, p) ==
    IF ~(At(b, 0) = Num(80)) THEN "null"
    ELSE IF p = 3 THEN "downlink"
    ELSE IF ~(p = 1) /\ ~(p = 4) THEN "null"
    ELSE "uplink"

\* the dispatch at the head of Decoder
Route(b, p) ==
    IF p = 3 THEN "downlink"
    ELSE IF ~(p = 1) /\ ~(p = 3) /\ ~(p = 4) THEN "null"
    ELSE IF ~(At(b, 0) = Num(80)) THEN "null"
    ELSE "uplink"

\* Decoder(bytes, port) up to the fetch of the bitmap
DecoderEntry(b, p) ==
    /\ pc = "idle"
    /\ call' = "Decoder"
    /\ bytes' = b
    /\ port' = p
    /\ UNCHANGED <<hi, scalar>>
    /\ \/ /\ Route(b, p) = "downlink"
          /\ decoded' = DecodeDownlinkResponse(b)
          /\ ret' = "record"
          /\ pc' = "done"
          /\ UNCHANGED <<i, flags>>
       \/ /\ Route(b, p) = "null"
          /\ ret' = "null"
          /\ pc' = "done"
          /\ UNCHANGED <<i, flags, decoded>>
       \/ /\ Route(b, p) = "uplink"
          /\ flags' = At(b, 1)
          /\ i' = 2
          /\ pc' = "bit0"
          /\ UNCHANGED <<decoded, ret>>

\* mutant: flags >= mask in place of flags & mask
FlagSetAtLeast(mask) == ToInt32(flags) >= mask

\* one bitmap bit of Decoder: mask is the bit, group the fields it selects
FlagSet(mask) == Truthy(BitAnd(flags, mask))

Step(from, to, mask, rec, off) ==
    /\ pc = from
    /\ pc' = to
    /\ IF FlagSet(mask)
       THEN decoded' = rec /\ i' = off
       ELSE UNCHANGED <<decoded, i>>
    /\ UNCHANGED <<call, bytes, port, flags, ret, hi, scalar>>

Bit0 ==
    LET a == DecodeV(bytes, i)
        b == DecodeV(bytes, a[2])
        c == DecodeV(bytes, b[2])
    IN  Step("bit0", "bit1", 1,
             Put(Put(Put(decoded, "vBat", a[1]), "vBus", b[1]), "vSys", c[1]),
             c[2])

Bit1 ==
    Step("bit1", "bit2", 2,
         Put(decoded, "version",
             Str("%.%.%.%", <<At(bytes, i), At(bytes, i + 1),
                              At(bytes, i + 2), At(bytes, i + 3)>>)),
         i + 4)

Bit2 == Step("bit2", "bit3", 4, Put(decoded, "boot", At(bytes, i)), i + 1)

Bit3 ==
    LET a == DecodeI16(bytes, i)
        b == DecodeUflt16(bytes, a[2])
    IN  Step("bit3", "bit4", 8,
             Put(Put(decoded, "t", a[1]), "rh", DivBy(MulBy(b[1], 100), 65535)),
             b[2])

Bit4 ==
    LET a == DecodeLux(bytes, i)
    IN  Step("bit4", "bit5", 16, Put(decoded, "lux", a[1]), a[2])

\* mutant: the cursor is stepped over the tap byte
Bit5Advance ==
    Step("bit5", "return", 32, Put(decoded, "tap", At(bytes, i)), i + 1)

Bit5 == Step("bit5", "return", 32, Put(decoded, "tap", At(bytes, i)), i)

Return ==
    /\ pc = "return"
    /\ pc' = "done"
    /\ ret' = "record"
    /\ UNCHANGED <<call, bytes, port, i, flags, decoded, hi, scalar>>

\* a call of DecodeSflt24 on a three-byte buffer
CallDecodeSflt24(b) ==
    /\ pc = "idle"
    /\ call' = "DecodeSflt24"
    /\ bytes' = b
    /\ scalar' = DecodeSflt24(b, 0)[1]
    /\ i' = DecodeSflt24(b, 0)[2]
    /\ ret' = "scalar"
    /\ pc' = "done"
    /\ UNCHANGED <<port, flags, decoded, hi>>

\* a call of CalculateHeatIndex; hi keeps the arguments with the result
CallHeatIndex(t, rh) ==
    /\ pc = "idle"
    /\ call' = "CalculateHeatIndex"
    /\ hi' = [t |-> t, rh |-> rh] @@ CalculateHeatIndex(t, rh)
    /\ ret' = "heat"
    /\ pc' = "done"
    /\ UNCHANGED <<bytes, port, i, flags, decoded, scalar>>

\* the calls the host can make, with their inputs
DecoderCall ==
    /\ pc = "idle"
    /\ \E b \in Buffers, p \in Ports : DecoderEntry(b, p)

Sflt24Call ==
    /\ pc = "idle"
    /\ \E s \in 0..1, x \in 0..127, m \in Sflt24Mantissas :
          CallDecodeSflt24(<<128 * s + x, m \div 256, m % 256>>)

HeatIndexCall ==
    /\ pc = "idle"
    /\ \E t \in HeatTemps, rh \in HeatHumidities : CallHeatIndex(t, rh)

Next ==
    \/ DecoderCall
    \/ Bit0
    \/ Bit1
    \/ Bit2
    \/ Bit3
    \/ Bit4
    \/ Bit5
    \/ Return
    \/ Sflt24Call
    \/ HeatIndexCall

Spec == Init /\ [][Next]_vars

(* ------------------------ vocabulary of the claims --------------------- *)
\* bit k of a bitmap byte, read arithmetically
BitOf(fl, k) == (fl \div (2 ^ k)) % 2 = 1

\* the bytes the field group of bit k occupies on the wire
GroupWidth(k) ==
    CASE k = 0 -> 6 [] k = 1 -> 4 [] k = 2 -> 1
      [] k = 3 -> 4 [] k = 4 -> 3 [] k = 5 -> 1 [] OTHER -> 0

GroupFields(k) ==
    CASE k = 0 -> {"vBat", "vBus", "vSys"} [] k = 1 -> {"version"}
      [] k = 2 -> {"boot"} [] k = 3 -> {"t", "rh"} [] k = 4 -> {"lux"}
      [] k = 5 -> {"tap"} [] OTHER -> {}

RECURSIVE WidthBelow(_, _)
\* the total width of the groups of the set bits below bit k
WidthBelow(fl, k) ==
    IF k = 0 THEN 0
    ELSE WidthBelow(fl, k - 1) + (IF BitOf(fl, k - 1) THEN GroupWidth(k - 1) ELSE 0)

\* the length a buffer needs for every selected field to lie inside it
Needed(b) == IF Len(b) < 2 THEN 2 ELSE 2 + WidthBelow(b[2], 6)

ExpectedFields(fl) == UNION {GroupFields(k) : k \in {j \in 0..7 : BitOf(fl, j)}}

DecoderDone == pc = "done" /\ call = "Decoder"
UplinkTagged == port \in {1, 4} /\ Len(bytes) >= 1 /\ bytes[1] = 80
LongEnough == Len(bytes) >= 2 /\ Len(bytes) >= Needed(bytes)
DownlinkDone == DecoderDone /\ port = 3 /\ Len(bytes) >= 1

(* -------------------------------- claims ------------------------------- *)

\* C1: on port 1 or 4, a buffer tagged 0x50 that is shorter than 2 plus the
\* widths of the field groups its bitmap selects is never decoded to a record:
\* the decode is a BufferUnderrun failure.
C1_UnderrunIsFailure ==
    (DecoderDone /\ UplinkTagged /\ Len(bytes) >= 2 /\ Len(bytes) < Needed(bytes))
        => ret # "record"

\* C2: on port 3, a buffer whose command byte is outside 0x01..0x07 is a
\* decode failure, never a returned (empty) record.
C2_UnrecognizedCommandFails ==
    (DownlinkDone /\ bytes[1] \notin 1..7) => ret # "record"

\* C3: on port 1 or 4, for every bitmap and every sufficiently long buffer
\* tagged 0x50, a record is returned whose field names are exactly the union
\* of the groups of the set bits 0..5; bits 6 and 7 add nothing and do not
\* reject.
C3_FieldSetIsBitmap ==
    (DecoderDone /\ UplinkTagged /\ LongEnough)
        => ret = "record" /\ DOMAIN decoded = ExpectedFields(bytes[2])

C3_Witness ==
    /\ DecoderDone /\ UplinkTagged /\ LongEnough
    /\ bytes[2] = 169
    /\ DOMAIN decoded = {"vBat", "vBus", "vSys", "t", "rh", "tap"}

\* C4: Decoder returns null and no record for every port outside {1,3,4}
\* whatever the buffer, and for port 1 or 4 when the first byte is not 0x50
\* (or is missing); port 3 always reaches the downlink-response decoder,
\* with no check of the format tag.
C4_Dispatch ==
    DecoderDone =>
        /\ port \notin {1, 3, 4} => ret = "null" /\ DOMAIN decoded = {}
        /\ (port \in {1, 4} /\ ~UplinkTagged) => ret = "null" /\ DOMAIN decoded = {}
        /\ port = 3 => /\ ret = "record"
                       /\ (Len(bytes) >= 1 /\ bytes[1] \in 3..7)
                            => "ResponseType" \in DOMAIN decoded

C4_Witness ==
    /\ DecoderDone /\ port = 2 /\ ret = "null"
    /\ Len(bytes) >= 8 /\ bytes[1] = 80 /\ bytes[2] = 1

\* C5: the UplinkInterval of a complete command 0x07 response is the
\* big-endian unsigned value of its four bytes, so it is never negative.
C5_IntervalIsUnsigned ==
    (DownlinkDone /\ bytes[1] = 7 /\ Len(bytes) >= 6)
        => LET v == decoded["UplinkInterval"]
           IN  /\ v.t = "number" /\ v.d = 1 /\ v.e = 0
               /\ v.n >= 0
               /\ v.n \div 65536 = 256 * bytes[3] + bytes[4]
               /\ v.n % 65536 = 256 * bytes[5] + bytes[6]

\* the Response text the status byte st stands for
StatusText(st) ==
    CASE st = 0 -> "Success" [] st = 1 -> "Invalid Length" [] st = 2 -> "Failure"
      [] OTHER -> ""

\* the Response field is there exactly for a status byte 0, 1 or 2, with its text
ResponseMatchesStatus ==
    IF Len(bytes) >= 2 /\ bytes[2] \in 0..2
    THEN /\ "Response" \in DOMAIN decoded
         /\ decoded["Response"] = Str(StatusText(bytes[2]), <<>>)
    ELSE "Response" \notin DOMAIN decoded

\* C6 as stated: for every command 0x01..0x07 the record has a ResponseType,
\* and for 0x03..0x07 a Response exactly for status 0, 1, 2.
C6_ResponseTypeAlways ==
    (DownlinkDone /\ bytes[1] \in 1..7)
        => /\ "ResponseType" \in DOMAIN decoded
           /\ bytes[1] \in 3..7 => ResponseMatchesStatus

\* C6 (amended): for every command 0x03..0x07 the record has a ResponseType,
\* and a Response equal to Success, Invalid Length or Failure exactly when
\* the status byte is 0, 1 or 2 (none for another or a missing status byte);
\* for commands 0x01 and 0x02 the record is empty.
C6_ResponseTypeFrom3 ==
    (DownlinkDone /\ bytes[1] \in 1..7)
        => /\ bytes[1] \in 3..7
                => "ResponseType" \in DOMAIN decoded /\ ResponseMatchesStatus
           /\ bytes[1] \in 1..2 => DOMAIN decoded = {}

C6_Witness ==
    /\ DownlinkDone /\ bytes[1] = 5 /\ Len(bytes) >= 2 /\ bytes[2] = 1
    /\ decoded["Response"] = Str("Invalid Length", <<>>)
    /\ "ResponseType" \in DOMAIN decoded

RevLetter(r) ==
    CASE r = 0 -> "A" [] r = 1 -> "B" [] r = 2 -> "C" [] r = 3 -> "D"
      [] r = 4 -> "E" [] OTHER -> ""

\* C7: a complete command 0x03 response with model id 0 gives Model 5230
\* and Rev "Not Found" whatever the revision byte; with a nonzero model id
\* it gives that Model, Rev "A".."E" for revision 0..4 and no Rev above 4.
C7_ModelAndRev ==
    (DownlinkDone /\ bytes[1] = 3 /\ Len(bytes) >= 9)
        => LET id == 256 * bytes[7] + bytes[8]
               rev == bytes[9]
           IN  IF id = 0
               THEN /\ decoded["Model"] = Num(5230)
                    /\ decoded["Rev"] = Str("Not Found", <<>>)
               ELSE /\ decoded["Model"] = Num(id)
                    /\ IF rev <= 4
                       THEN /\ "Rev" \in DOMAIN decoded
                            /\ decoded["Rev"] = Str(RevLetter(rev), <<>>)
                       ELSE "Rev" \notin DOMAIN decoded

C7_Witness ==
    /\ DownlinkDone /\ bytes[1] = 3 /\ Len(bytes) >= 9
    /\ bytes[7] = 1 /\ bytes[8] = 0 /\ bytes[9] = 2
    /\ decoded["Model"] = Num(256)
    /\ decoded["Rev"] = Str("C", <<>>)

HeatDone == pc = "done" /\ call = "CalculateHeatIndex"
\* the returned heat index is within 0.1 of 94.6
Near94_6 ==
    /\ hi.branch \in {"easy", "hard"}
    /\ ~Less(<<hi.w, hi.f>>, <<94, 50000000>>)
    /\ ~Less(<<94, 70000000>>, <<hi.w, hi.f>>)

\* C8 as stated: at t = 90, rh = 50 the sum-average check routes to the
\* simple formula, and the result is within 0.1 of 94.6.
C8_SimpleBranchAt90_50 ==
    (HeatDone /\ hi.t = 90 /\ hi.rh = 50) => hi.branch = "easy" /\ Near94_6

\* C8 (amended): at t = 90, rh = 50 the sum-average check fails (tHeatEasy +
\* t = 181.05 is not below 160), CalculateHeatIndex takes the polynomial
\* branch, and the result is within 0.1 of 94.6.
C8_PolynomialBranchAt90_50 ==
    (HeatDone /\ hi.t = 90 /\ hi.rh = 50) => hi.branch = "hard" /\ Near94_6

C8_Witness ==
    /\ HeatDone /\ hi.t = 90 /\ hi.rh = 50
    /\ hi.w = 94 /\ hi.f = 59694120

\* C9: DecodeSflt24 gives +infinity / -infinity (by the sign bit) for
\* exponent field 0x7F with mantissa 0, NaN for exponent field 0x7F with a
\* nonzero mantissa, and a finite number for every other exponent field.
C9_Sflt24Specials ==
    (pc = "done" /\ call = "DecodeSflt24")
        => LET S == bytes[1] >= 128
               E == bytes[1] % 128
               M == 256 * bytes[2] + bytes[3]
           IN  /\ (E = 127 /\ M = 0 /\ ~S) => scalar = Infinity(1)
               /\ (E = 127 /\ M = 0 /\ S) => scalar = Infinity(-1)
               /\ (E = 127 /\ M # 0) => scalar = NaN
               /\ E # 127 => scalar.t = "number"

C9_Witness ==
    /\ pc = "done" /\ call = "DecodeSflt24"
    /\ bytes = <<255, 0, 0>>
    /\ scalar = Infinity(-1)

\* the bit the decoder is about to examine; 6 once all six are behind it
PcBit ==
    CASE pc = "bit0" -> 0 [] pc = "bit1" -> 1 [] pc = "bit2" -> 2
      [] pc = "bit3" -> 3 [] pc = "bit4" -> 4 [] pc = "bit5" -> 5
      [] OTHER -> 6

\* widths as the cursor sees them: the tap byte is read but not stepped over
RECURSIVE Consumed(_, _)
Consumed(fl, k) ==
    IF k = 0 THEN 0
    ELSE Consumed(fl, k - 1)
         + (IF BitOf(fl, k - 1) /\ k - 1 < 5 THEN GroupWidth(k - 1) ELSE 0)

\* C10: for a sufficiently long accepted buffer, the group of each bit starts
\* at offset 2 plus the widths of the lower set bits, and when Decoder returns
\* the offset is 2 plus the widths of the set bits 0..4: the tap byte of bit 5
\* is read at the current offset and adds nothing to it.
C10_CursorOffsets ==
    (call = "Decoder" /\ pc # "idle" /\ UplinkTagged /\ LongEnough)
        => /\ i = 2 + Consumed(bytes[2], PcBit)
           /\ (pc \in {"return", "done"} /\ BitOf(bytes[2], 5))
                => decoded["tap"] = Num(bytes[i + 1])

C10_Witness ==
    /\ DecoderDone /\ port = 1 /\ ret = "record"
    /\ Len(bytes) = 6 /\ bytes[1] = 80 /\ bytes[2] = 8
    /\ i = 6 /\ DOMAIN decoded = {"t", "rh"}

====
